---- MODULE Spec2Model ----
(***************************************************************************)
(* Model of olmo_core.nn.transformer.config: the construction of a         *)
(* TransformerActivationCheckpointingConfig and of a TransformerConfig,    *)
(* and TransformerConfig.build, the pipeline that allocates a model shell  *)
(* and applies float8 conversion, tensor parallelism, activation           *)
(* checkpointing, compilation and data-parallel wrapping before it         *)
(* materializes and initializes the parameters.                            *)
(*                                                                         *)
(* build is sequential code.  It is modelled one pipeline step per action, *)
(* pc naming the step that runs next, so that the order of the calls made  *)
(* on the model and the state at the moment an exception is raised can be  *)
(* observed.  The calls made on the model (and on the strategy objects)    *)
(* are logged in `calls`, with the arguments the code passes.              *)
(***************************************************************************)
EXTENDS Integers, Sequences, FiniteSets, TLC

VARIABLES
    cuda_available, \* torch.cuda.is_available() of the process
    ac_attempt,     \* the TransformerActivationCheckpointingConfig(...) call made, if any
    cfg,            \* the TransformerConfig object (self)
    pc,             \* position of the program / of build
    args,           \* build's parameters init_device and mesh (never rebound)
    device,         \* build's parameter `device`, rebound on entry
    tp_mesh,        \* build's parameter `tp_mesh`, rebound in step 3
    dp_mesh,        \* build's parameter `dp_mesh`, rebound in step 6
    model,          \* build's local `model`
    calls,          \* calls made by the current build, in order
    warned,         \* log.warning was called by the current build
    err,            \* the exception the current build (or a constructor) raised
    desc,           \* the sizing fields of a TransformerConfig (the architecture descriptor)
    sizes,          \* what the sizing queries made on desc returned
    has_flash,      \* olmo_core.utils.has_flash_attn() of the process
    ll_args,        \* the arguments of the llama_like / ngpt_like call made, if any
    ll_cfg,         \* the config that call returned
    world_size,     \* run_distributed_test's argument world_size
    device_count,   \* torch.cuda.device_count() of the host
    started,        \* run_distributed_test has called mp.start_processes
    procs           \* the processes started: process_rank -> state of its init_process

\* The variables of the sizing queries and of the config factories.
pure_vars == <<desc, sizes, has_flash, ll_args, ll_cfg>>

\* The variables of the distributed test harness.
test_vars == <<world_size, device_count, started, procs>>

vars == <<cuda_available, ac_attempt, cfg, pc, args, device, tp_mesh, dp_mesh,
          model, calls, warned, err, desc, sizes, has_flash, ll_args, ll_cfg,
          world_size, device_count, started, procs>>

----------------------------------------------------------------------------
(* Optional[T]: None is the empty sequence, a value x is <<x>>. *)

None == <<>>

Some(x) == <<x>>

Get(o) == o[1]

----------------------------------------------------------------------------
(* Bounds and input domains. *)

MaxBlockInterval == 2

BlockIntervals == {None} \cup {Some(i) : i \in 1..MaxBlockInterval}

ModuleLists == {None, Some(<<"blocks.*.feed_forward">>)}

ACModes == {"full", "selected_blocks", "selected_modules"}

TransformerTypes == {"default", "normalized", "unknown"}

DataParallelTypes == {"ddp", "fsdp", "hsdp", "unknown"}

Devices == IF cuda_available THEN {"meta", "cpu", "cuda"} ELSE {"meta", "cpu"}

TargetDevices == IF cuda_available THEN {"cpu", "cuda"} ELSE {"cpu"}

Meshes == {None, Some("mesh[dp]"), Some("mesh[dp,tp]")}

DPMeshArgs == {None, Some("dp_mesh")}

TPMeshArgs == {None, Some("tp_mesh")}

TPConfigs == {None, Some([enable_async_tp |-> TRUE])}

DPConfigs == {None} \cup {Some([name |-> n]) : n \in DataParallelTypes}

Float8Configs ==
    {None, Some([enabled |-> FALSE, compile |-> None])}
        \cup {Some([enabled |-> TRUE, compile |-> c]) : c \in {None, Some(TRUE), Some(FALSE)}}

----------------------------------------------------------------------------
(* Collaborators that live outside config.py. *)

\* olmo_core.utils.get_default_device(): a CUDA device only where CUDA is available.
DefaultDevices == TargetDevices

\* olmo_core.distributed.parallel.get_tp_mesh: the tensor-parallel view of a
\* composed mesh, None when the mesh has no tensor-parallel axis.
get_tp_mesh(mesh) == IF mesh = Some("mesh[dp,tp]") THEN Some("mesh.tp") ELSE None

\* olmo_core.distributed.parallel.get_dp_mesh: the data-parallel view of a
\* composed mesh.
get_dp_mesh(mesh) == IF mesh = None THEN None ELSE Some("mesh.dp")

\* DataParallelConfig.build_device_mesh(device_type=...), used for HSDP.
build_device_mesh(device_type) ==
    IF device_type = "cuda" THEN Some("hsdp_mesh@cuda") ELSE Some("hsdp_mesh@cpu")

----------------------------------------------------------------------------
(* Records. *)

\* One logged call: the callee, the mesh and the flag it was given (when it
\* takes one) and the module names it was told to leave alone.
Call(op, mesh, flag, ignore) == [op |-> op, mesh |-> mesh, flag |-> flag, ignore |-> ignore]

NoModel == [cls |-> "none", device |-> "none", n_init |-> 0]

NoArgs == [init_device |-> "cpu", mesh |-> None]

\* The dataclass defaults of the optional fields of TransformerConfig.
DefaultConfig == [name |-> "default", compile |-> FALSE, dp_config |-> None,
                  tp_config |-> None, ac_config |-> None, float8_config |-> None]

Ops(cs) == {cs[i].op : i \in 1..Len(cs)}

----------------------------------------------------------------------------
(* TransformerActivationCheckpointingConfig.__post_init__ *)

\* __post_init__ with the two required fields exchanged (sensitivity check of C6).
ACPostInit_swapped(mode, block_interval, modules) ==
    IF mode = "selected_blocks" /\ modules = None
    THEN Some("OLMoConfigurationError")
    ELSE IF mode = "selected_modules" /\ block_interval = None
    THEN Some("OLMoConfigurationError")
    ELSE None

ACPostInit(mode, block_interval, modules) ==
    IF mode = "selected_blocks" /\ block_interval = None
    THEN Some("OLMoConfigurationError")
    ELSE IF mode = "selected_modules" /\ modules = None
    THEN Some("OLMoConfigurationError")
    ELSE None

\* The constructor call as it is remembered: its arguments and what it raised.
ACAttempt(mode, block_interval, modules) ==
    [mode |-> mode, block_interval |-> block_interval, modules |-> modules,
     raised |-> ACPostInit(mode, block_interval, modules)]

NewACConfig(mode, block_interval, modules) ==
    /\ pc = "start"
    /\ ac_attempt = None
    /\ ac_attempt' = Some(ACAttempt(mode, block_interval, modules))
    /\ err' = ACPostInit(mode, block_interval, modules)
    /\ pc' = IF ACPostInit(mode, block_interval, modules) = None
             THEN "start" ELSE "config_error"
    /\ UNCHANGED pure_vars
    /\ UNCHANGED test_vars
    /\ UNCHANGED <<cuda_available, cfg, args, device, tp_mesh, dp_mesh, model, calls, warned>>

(* TransformerConfig(...): the dataclass constructor stores its arguments. *)
NewConfig(name, compile, dp_config, tp_config, float8_config) ==
    /\ pc = "start"
    /\ cfg' = [name |-> name, compile |-> compile, dp_config |-> dp_config,
               tp_config |-> tp_config,
               ac_config |-> IF ac_attempt = None THEN None
                             ELSE Some([mode |-> Get(ac_attempt).mode,
                                        block_interval |-> Get(ac_attempt).block_interval,
                                        modules |-> Get(ac_attempt).modules]),
               float8_config |-> float8_config]
    /\ pc' = "idle"
    /\ UNCHANGED pure_vars
    /\ UNCHANGED test_vars
    /\ UNCHANGED <<cuda_available, ac_attempt, args, device, tp_mesh, dp_mesh, model,
                   calls, warned, err>>

----------------------------------------------------------------------------
(* TransformerConfig.build *)

Raise(e) ==
    /\ err' = Some(e)
    /\ pc' = "raised"

\* The call: arguments bound, `device = device or get_default_device()`.
Build(init_device, device_arg, mesh, dp_mesh_arg, tp_mesh_arg) ==
    /\ args' = [init_device |-> init_device, mesh |-> mesh]
    /\ \E d \in (IF device_arg = None THEN DefaultDevices ELSE {Get(device_arg)}) :
          device' = d
    /\ tp_mesh' = tp_mesh_arg
    /\ dp_mesh' = dp_mesh_arg
    /\ model' = NoModel
    /\ calls' = <<>>
    /\ warned' = FALSE
    /\ err' = None
    /\ pc' = "shell"
    /\ UNCHANGED pure_vars
    /\ UNCHANGED test_vars
    /\ UNCHANGED <<cuda_available, ac_attempt, cfg>>

\* Step 1: the model shell on init_device, by architecture name.
\* `if self.name == default ... elif self.name == normalized ... else: raise`
KnownTransformerType == cfg.name \in {"default", "normalized"}

AllocateShell ==
    /\ pc = "shell"
    /\ IF KnownTransformerType
       THEN /\ model' = [cls |-> IF cfg.name = "default" THEN "Transformer"
                                 ELSE "NormalizedTransformer",
                         device |-> args.init_device, n_init |-> 0]
            /\ calls' = Append(calls, Call("__init__", None, None, {}))
            /\ pc' = "float8"
            /\ UNCHANGED err
       ELSE /\ Raise("NotImplementedError")
            /\ UNCHANGED <<model, calls>>
    /\ UNCHANGED pure_vars
    /\ UNCHANGED test_vars
    /\ UNCHANGED <<cuda_available, ac_attempt, cfg, args, device, tp_mesh, dp_mesh, warned>>

\* Step 2: float8 conversion.
\* Conversion whenever a float8 config is present (sensitivity check of C12).
Float8Enabled_present == cfg.float8_config # None

Float8Enabled == cfg.float8_config # None /\ Get(cfg.float8_config).enabled

\* An unset flag always replaced by the compile flag (sensitivity check of C11).
Float8Resolved_inherited ==
    IF Get(cfg.float8_config).compile = None
    THEN Some([Get(cfg.float8_config) EXCEPT !.compile = Some(cfg.compile)])
    ELSE cfg.float8_config

\* The float8 config after `if self.float8_config.compile is None and self.compile`.
Float8Resolved ==
    IF Get(cfg.float8_config).compile = None /\ cfg.compile
    THEN Some([Get(cfg.float8_config) EXCEPT !.compile = Some(TRUE)])
    ELSE cfg.float8_config

ConvertFloat8 ==
    /\ pc = "float8"
    /\ IF Float8Enabled
       THEN /\ cfg' = [cfg EXCEPT !.float8_config = Float8Resolved]
            /\ calls' = Append(calls, Call("convert_to_float8_training", None,
                                           Get(Float8Resolved).compile, {"lm_head.w_out"}))
       ELSE UNCHANGED <<cfg, calls>>
    /\ pc' = "tp"
    /\ UNCHANGED pure_vars
    /\ UNCHANGED test_vars
    /\ UNCHANGED <<cuda_available, ac_attempt, args, device, tp_mesh, dp_mesh, model,
                   warned, err>>

\* Step 3: tensor parallelism.
\* Step 3 without its fail-fast check (sensitivity check of C2).
TPMeshRequired_unchecked == FALSE

\* `self.tp_config is not None and mesh is None and tp_mesh is None`
TPMeshRequired == cfg.tp_config # None /\ args.mesh = None /\ tp_mesh = None

\* `elif tp_mesh is None and mesh is not None: tp_mesh = get_tp_mesh(mesh)`
TPMeshResolved ==
    IF tp_mesh = None /\ args.mesh # None THEN get_tp_mesh(args.mesh) ELSE tp_mesh

\* Async TP enabled before the modules are sharded (sensitivity check of C1).
TPCalls_asyncFirst(tm) ==
    (IF cfg.tp_config # None
     THEN <<Call("maybe_enable_async_tp", tm, None, {})>> ELSE <<>>)
        \o <<Call("apply_tp", tm, Some(Float8Enabled), {})>>

\* Async TP enabled without looking at tp_config (sensitivity check of C5).
TPCalls_asyncAlways(tm) ==
    <<Call("apply_tp", tm, Some(Float8Enabled), {}),
      Call("maybe_enable_async_tp", tm, None, {})>>

\* `model.apply_tp(tp_mesh, float8_enabled=...)`, then
\* `if self.tp_config is not None: self.tp_config.maybe_enable_async_tp(tp_mesh)`
TPCalls(tm) ==
    <<Call("apply_tp", tm, Some(Float8Enabled), {})>>
        \o (IF cfg.tp_config # None
            THEN <<Call("maybe_enable_async_tp", tm, None, {})>> ELSE <<>>)

ApplyTP ==
    /\ pc = "tp"
    /\ IF TPMeshRequired
       THEN /\ Raise("RuntimeError")
            /\ UNCHANGED <<tp_mesh, calls>>
       ELSE /\ tp_mesh' = TPMeshResolved
            /\ calls' = IF TPMeshResolved # None THEN calls \o TPCalls(TPMeshResolved)
                        ELSE calls
            /\ pc' = "ac"
            /\ UNCHANGED err
    /\ UNCHANGED pure_vars
    /\ UNCHANGED test_vars
    /\ UNCHANGED <<cuda_available, ac_attempt, cfg, args, device, dp_mesh, model, warned>>

\* Step 4: activation checkpointing.
ApplyAC ==
    /\ pc = "ac"
    /\ calls' = IF cfg.ac_config # None
                THEN Append(calls, Call("apply_activation_checkpointing", None, None, {}))
                ELSE calls
    /\ pc' = "compile"
    /\ UNCHANGED pure_vars
    /\ UNCHANGED test_vars
    /\ UNCHANGED <<cuda_available, ac_attempt, cfg, args, device, tp_mesh, dp_mesh, model,
                   warned, err>>

\* Step 5: compilation.
\* Compilation attempted without CUDA (sensitivity check of C8).
CanCompile_always == TRUE

\* `torch.cuda.is_available()`
CanCompile == cuda_available

ApplyCompile ==
    /\ pc = "compile"
    /\ IF cfg.compile
       THEN IF CanCompile
            THEN /\ calls' = Append(calls, Call("apply_compile", None, None, {}))
                 /\ UNCHANGED warned
            ELSE /\ warned' = TRUE
                 /\ UNCHANGED calls
       ELSE UNCHANGED <<calls, warned>>
    /\ pc' = "dp"
    /\ UNCHANGED pure_vars
    /\ UNCHANGED test_vars
    /\ UNCHANGED <<cuda_available, ac_attempt, cfg, args, device, tp_mesh, dp_mesh, model, err>>

\* Step 6: data-parallel wrapping.
\* The composed mesh taking precedence over dp_mesh (sensitivity check of C13).
DPMeshFromMesh_meshFirst ==
    IF args.mesh # None THEN get_dp_mesh(args.mesh) ELSE dp_mesh

\* `if dp_mesh is None and mesh is not None: dp_mesh = get_dp_mesh(mesh)`
DPMeshFromMesh ==
    IF dp_mesh = None /\ args.mesh # None THEN get_dp_mesh(args.mesh) ELSE dp_mesh

\* A mesh built for FSDP as it is for HSDP (sensitivity check of C4).
DPMeshForFSDP_anyVariant ==
    IF DPMeshFromMesh = None THEN build_device_mesh(device) ELSE DPMeshFromMesh

\* `if self.dp_config.name == DataParallelType.hsdp and dp_mesh is None: ...`
DPMeshForFSDP ==
    IF Get(cfg.dp_config).name = "hsdp" /\ DPMeshFromMesh = None
    THEN build_device_mesh(device)
    ELSE DPMeshFromMesh

\* `compile_enabled=self.compile`
DDPCompileEnabled == cfg.compile

\* An unknown variant falling through to the FSDP branch (sensitivity check of C10).
DPWrapKind_default ==
    IF Get(cfg.dp_config).name = "ddp" THEN "ddp" ELSE "fsdp"

\* The branch of the `if / elif / else` on self.dp_config.name.
DPWrapKind ==
    IF Get(cfg.dp_config).name \in {"fsdp", "hsdp"} THEN "fsdp"
    ELSE IF Get(cfg.dp_config).name = "ddp" THEN "ddp"
    ELSE "unknown"

ApplyDP ==
    /\ pc = "dp"
    /\ IF cfg.dp_config = None
       THEN /\ dp_mesh' = DPMeshFromMesh
            /\ pc' = "materialize"
            /\ UNCHANGED <<calls, err>>
       ELSE IF DPWrapKind = "fsdp"
       THEN /\ dp_mesh' = DPMeshForFSDP
            /\ calls' = Append(calls, Call("apply_fsdp", DPMeshForFSDP, None, {}))
            /\ pc' = "materialize"
            /\ UNCHANGED err
       ELSE IF DPWrapKind = "ddp"
       THEN /\ dp_mesh' = DPMeshFromMesh
            /\ calls' = Append(calls, Call("apply_ddp", DPMeshFromMesh,
                                           Some(DDPCompileEnabled), {}))
            /\ pc' = "materialize"
            /\ UNCHANGED err
       ELSE /\ dp_mesh' = DPMeshFromMesh
            /\ Raise("NotImplementedError")
            /\ UNCHANGED calls
    /\ UNCHANGED pure_vars
    /\ UNCHANGED test_vars
    /\ UNCHANGED <<cuda_available, ac_attempt, cfg, args, device, tp_mesh, model, warned>>

\* Step 7: materialization.
\* Materialization only from the meta device (sensitivity check of C7).
NeedsToEmpty_metaOnly == args.init_device = "meta"

\* `device != torch.device(init_device)`
NeedsToEmpty == device # args.init_device

Materialize ==
    /\ pc = "materialize"
    /\ IF NeedsToEmpty
       THEN /\ model' = [model EXCEPT !.device = device]
            /\ calls' = Append(calls, Call("to_empty", None, None, {}))
       ELSE UNCHANGED <<model, calls>>
    /\ pc' = "init"
    /\ UNCHANGED pure_vars
    /\ UNCHANGED test_vars
    /\ UNCHANGED <<cuda_available, ac_attempt, cfg, args, device, tp_mesh, dp_mesh, warned, err>>

\* Step 8: initialization, and `return model`.
InitWeights ==
    /\ pc = "init"
    /\ model' = [model EXCEPT !.n_init = @ + 1]
    /\ calls' = Append(calls, Call("init_weights", None, None, {}))
    /\ pc' = "returned"
    /\ UNCHANGED pure_vars
    /\ UNCHANGED test_vars
    /\ UNCHANGED <<cuda_available, ac_attempt, cfg, args, device, tp_mesh, dp_mesh, warned, err>>

----------------------------------------------------------------------------
(* The sizing queries: num_params, num_non_embedding_params and              *)
(* num_flops_per_token.  The parameter counts of the attention, layer norm,  *)
(* feed-forward and LM head configs come from classes outside config.py:     *)
(* the descriptor carries the numbers they return for its d_model.           *)

MaxDModel == 6

MaxVocab == 2

MaxLayers == 2

MaxHeads == 3

MaxSeqLen == 2

BlockTypes == {"default", "normalized"}

Descriptors ==
    [d_model : 1..MaxDModel, vocab_size : 1..MaxVocab, n_layers : 1..MaxLayers,
     n_heads : 1..MaxHeads, block_name : BlockTypes,
     attn_params : {5},
     ln_params : {None, Some(3)},
     ff_params : {None, Some(7)},
     moe_params : {None, Some(11)},
     head_params : {0, 13}]

NoDesc == [d_model |-> 1, vocab_size |-> 1, n_layers |-> 1, n_heads |-> 1,
           block_name |-> "default", attn_params |-> 5, ln_params |-> None,
           ff_params |-> None, moe_params |-> None, head_params |-> 0]

NoSizes == [num_params |-> None, num_non_embedding_params |-> None,
            num_flops_per_token |-> None, seq_len |-> None]

\* num_params with the block layer norm counted once (sensitivity check of C15).
num_params_singleNorm(c) ==
    LET embedding == c.d_model * c.vocab_size
        scaling == IF c.block_name = "normalized" THEN 2 * c.d_model ELSE 0
        attn == scaling + c.attn_params
        attn_norm == IF c.ln_params # None THEN attn + Get(c.ln_params) ELSE attn
        ff == IF c.ff_params # None THEN attn_norm + Get(c.ff_params)
              ELSE IF c.moe_params # None THEN attn_norm + Get(c.moe_params)
              ELSE attn_norm
    IN  embedding + c.n_layers * ff + c.head_params

\* TransformerConfig.num_params: block_params is accumulated in the order of the code.
num_params(c) ==
    LET embedding == c.d_model * c.vocab_size
        scaling == IF c.block_name = "normalized" THEN 2 * c.d_model ELSE 0
        attn == scaling + c.attn_params
        attn_norm == IF c.ln_params # None THEN attn + Get(c.ln_params) ELSE attn
        ff == IF c.ff_params # None THEN attn_norm + Get(c.ff_params)
              ELSE IF c.moe_params # None THEN attn_norm + Get(c.moe_params)
              ELSE attn_norm
        ff_norm == IF c.ln_params # None THEN ff + Get(c.ln_params) ELSE ff
    IN  embedding + c.n_layers * ff_norm + c.head_params

\* The embedding table counted by its width alone (sensitivity check of C14).
num_non_embedding_params_width(c) == num_params(c) - c.d_model

\* TransformerConfig.num_non_embedding_params
num_non_embedding_params(c) == num_params(c) - c.d_model * c.vocab_size

\* The attention term taken over d_model, not over n_heads * head_dim
\* (sensitivity check of C16).
num_flops_per_token_exact(c, seq_len) ==
    6 * num_non_embedding_params(c) + 12 * c.n_layers * c.d_model * seq_len

\* TransformerConfig.num_flops_per_token: q is `self.d_model // n_heads`.
num_flops_per_token(c, seq_len) ==
    LET n == c.n_layers
        h == c.n_heads
        q == c.d_model \div c.n_heads
        t == seq_len
    IN  6 * num_non_embedding_params(c) + 12 * n * h * q * t

GetNumParams ==
    /\ sizes' = [sizes EXCEPT !.num_params = Some(num_params(desc))]
    /\ UNCHANGED test_vars
    /\ UNCHANGED <<cuda_available, ac_attempt, cfg, pc, args, device, tp_mesh, dp_mesh,
                   model, calls, warned, err, desc, has_flash, ll_args, ll_cfg>>

GetNumNonEmbeddingParams ==
    /\ sizes' = [sizes EXCEPT
                   !.num_non_embedding_params = Some(num_non_embedding_params(desc))]
    /\ UNCHANGED test_vars
    /\ UNCHANGED <<cuda_available, ac_attempt, cfg, pc, args, device, tp_mesh, dp_mesh,
                   model, calls, warned, err, desc, has_flash, ll_args, ll_cfg>>

GetNumFlopsPerToken(seq_len) ==
    /\ sizes' = [sizes EXCEPT
                   !.num_flops_per_token = Some(num_flops_per_token(desc, seq_len)),
                   !.seq_len = Some(seq_len)]
    /\ UNCHANGED test_vars
    /\ UNCHANGED <<cuda_available, ac_attempt, cfg, pc, args, device, tp_mesh, dp_mesh,
                   model, calls, warned, err, desc, has_flash, ll_args, ll_cfg>>

----------------------------------------------------------------------------
(* The config factories llama_like and ngpt_like. *)

MaxMultipleOf == 4

\* hidden_size_multiplier is a float: None, or the ratio <<numerator, denominator>>.
HiddenSizeMultipliers == {None, Some(<<3, 2>>)}

OptionalBools == {None, Some(TRUE), Some(FALSE)}

KVHeads == {None, Some(1)}

RoPETypes == {None, Some("default"), Some("complex")}

\* The default taken from flash-attn alone (sensitivity check of C19).
resolve_flag_noCompile(given, compile) ==
    IF given = None THEN has_flash ELSE Get(given)

\* `if fused_ops is None: fused_ops = False if compile else has_flash_attn()`
\* (and the same for use_flash).
resolve_flag(given, compile) ==
    IF given = None
    THEN (IF compile THEN FALSE ELSE has_flash)
    ELSE Get(given)

\* The hidden size rounded down to a multiple (sensitivity check of C18).
resolve_hidden_size_down(d_model, multiple_of, multiplier) ==
    LET base == (8 * d_model) \div 3
        scaled == IF multiplier = None THEN base
                  ELSE (Get(multiplier)[1] * base) \div Get(multiplier)[2]
    IN  multiple_of * (scaled \div multiple_of)

\* `hidden_size = int(8 * d_model / 3)`, `int(hidden_size_multiplier * hidden_size)`,
\* then rounded up to a multiple of hidden_size_multiple_of.
resolve_hidden_size(d_model, multiple_of, multiplier) ==
    LET base == (8 * d_model) \div 3
        scaled == IF multiplier = None THEN base
                  ELSE (Get(multiplier)[1] * base) \div Get(multiplier)[2]
    IN  multiple_of * ((scaled + multiple_of - 1) \div multiple_of)

\* Fused attention chosen without looking at n_kv_heads (sensitivity check of C20).
llama_att_type_anyHeads(fused_ops, n_kv_heads, rope_type) ==
    IF rope_type = None /\ fused_ops THEN "fused" ELSE "default"

\* `att_type = default; if rope_type is None: ... if fused_ops and n_kv_heads is None`
llama_att_type(fused_ops, n_kv_heads, rope_type) ==
    IF rope_type = None /\ fused_ops /\ n_kv_heads = None THEN "fused" ELSE "default"

llama_rope_type(fused_ops, n_kv_heads, rope_type) ==
    IF rope_type = None
    THEN (IF fused_ops /\ n_kv_heads = None THEN "fused" ELSE "default")
    ELSE Get(rope_type)

\* TransformerConfig.llama_like: the fields of the returned config that the
\* arguments decide, and the resolved local fused_ops.
llama_like(a) ==
    LET fused_ops == resolve_flag(a.fused_ops, a.compile)
        use_flash == resolve_flag(a.use_flash, a.compile)
    IN  [name |-> "default",
         d_model |-> a.d_model,
         compile |-> a.compile,
         fused_ops |-> fused_ops,
         hidden_size |-> resolve_hidden_size(a.d_model, a.hidden_size_multiple_of,
                                             a.hidden_size_multiplier),
         layer_norm |-> Some(IF fused_ops THEN "fused_rms" ELSE "rms"),
         attention |-> llama_att_type(fused_ops, a.n_kv_heads, a.rope_type),
         rope |-> llama_rope_type(fused_ops, a.n_kv_heads, a.rope_type),
         n_kv_heads |-> a.n_kv_heads,
         use_flash |-> use_flash]

\* TransformerConfig.ngpt_like: it takes no fused_ops and no rope_type.
ngpt_like(a) ==
    [name |-> "normalized",
     d_model |-> a.d_model,
     compile |-> a.compile,
     fused_ops |-> FALSE,
     hidden_size |-> resolve_hidden_size(a.d_model, a.hidden_size_multiple_of,
                                         a.hidden_size_multiplier),
     layer_norm |-> None,
     attention |-> "normalized",
     rope |-> "default",
     n_kv_heads |-> a.n_kv_heads,
     use_flash |-> resolve_flag(a.use_flash, a.compile)]

FactoryArgs(factory, d_model, multiple_of, multiplier, fused_ops, use_flash, compile, n_kv_heads, rope_type) ==
    [factory |-> factory, d_model |-> d_model, hidden_size_multiple_of |-> multiple_of,
     hidden_size_multiplier |-> multiplier, fused_ops |-> fused_ops,
     use_flash |-> use_flash, compile |-> compile, n_kv_heads |-> n_kv_heads,
     rope_type |-> rope_type]

CallLlamaLike(d_model, multiple_of, multiplier, fused_ops, use_flash, compile, n_kv_heads, rope_type) ==
    /\ ll_args = None
    /\ LET a == FactoryArgs("llama_like", d_model, multiple_of, multiplier, fused_ops,
                            use_flash, compile, n_kv_heads, rope_type)
       IN  /\ ll_args' = Some(a)
           /\ ll_cfg' = Some(llama_like(a))
    /\ UNCHANGED test_vars
    /\ UNCHANGED <<cuda_available, ac_attempt, cfg, pc, args, device, tp_mesh, dp_mesh,
                   model, calls, warned, err, desc, sizes, has_flash>>

CallNgptLike(d_model, multiple_of, multiplier, use_flash, compile, n_kv_heads) ==
    /\ ll_args = None
    /\ LET a == FactoryArgs("ngpt_like", d_model, multiple_of, multiplier, None,
                            use_flash, compile, n_kv_heads, None)
       IN  /\ ll_args' = Some(a)
           /\ ll_cfg' = Some(ngpt_like(a))
    /\ UNCHANGED test_vars
    /\ UNCHANGED <<cuda_available, ac_attempt, cfg, pc, args, device, tp_mesh, dp_mesh,
                   model, calls, warned, err, desc, sizes, has_flash>>

----------------------------------------------------------------------------
(* The distributed test harness: run_distributed_test and init_process. *)

MaxWorldSize == 3

MaxDeviceCount == 2

\* No process has been started.
NoProcs == <<>>

\* A process that mp.start_processes has just started on init_process.
NewProc ==
    [pc |-> "assert", initialized |-> FALSE, n_init |-> 0, n_destroy |-> 0,
     n_func |-> 0, func_raised |-> FALSE, err |-> None]

\* The process ranks mp.start_processes hands out for nprocs processes.
Ranks(nprocs) == 0..(nprocs - 1)

\* `mp.start_processes(init_process, ..., nprocs=world_size)`: process i
\* calls init_process(i, world_size, ...).
StartedRanks(nprocs) == Ranks(nprocs)

Exit(p, e) == [p EXCEPT !.pc = "exited", !.err = e]

\* run_distributed_test: one process per rank, each at the top of init_process.
StartProcesses ==
    /\ ~started
    /\ started' = TRUE
    /\ procs' = [process_rank \in StartedRanks(world_size) |-> NewProc]
    /\ UNCHANGED <<world_size, device_count>>
    /\ UNCHANGED pure_vars
    /\ UNCHANGED <<cuda_available, ac_attempt, cfg, pc, args, device, tp_mesh, dp_mesh,
                   model, calls, warned, err>>

\* The part of a step of process process_rank that every step shares.
ProcStep(process_rank, at) ==
    /\ started
    /\ process_rank \in DOMAIN procs
    /\ procs[process_rank].pc = at
    /\ UNCHANGED <<world_size, device_count, started>>
    /\ UNCHANGED pure_vars
    /\ UNCHANGED <<cuda_available, ac_attempt, cfg, pc, args, device, tp_mesh, dp_mesh,
                   model, calls, warned, err>>

\* `assert world_size > 1`
AssertWorldSize(process_rank) ==
    /\ ProcStep(process_rank, "assert")
    /\ procs' = [procs EXCEPT ![process_rank] =
                    IF world_size > 1
                    THEN [@ EXCEPT !.pc = "init_process_group"]
                    ELSE Exit(@, Some("AssertionError"))]

\* `dist.init_process_group(...)`: it sets the group up or raises.
InitProcessGroup(process_rank, ok) ==
    /\ ProcStep(process_rank, "init_process_group")
    /\ procs' = [procs EXCEPT ![process_rank] =
                    IF ok
                    THEN [@ EXCEPT !.pc = "set_device", !.initialized = TRUE,
                                   !.n_init = @ + 1]
                    ELSE Exit(@, Some("DistError"))]

\* torch.cuda.set_device(i) raises on a device ordinal the host does not have.
SetDeviceRaises(process_rank) == process_rank >= device_count

\* `if torch.cuda.is_available(): torch.cuda.set_device(int(process_rank))`,
\* outside the try block.
SetDevice(process_rank) ==
    /\ ProcStep(process_rank, "set_device")
    /\ procs' = [procs EXCEPT ![process_rank] =
                    IF cuda_available /\ SetDeviceRaises(process_rank)
                    THEN Exit(@, Some("RuntimeError"))
                    ELSE [@ EXCEPT !.pc = "func"]]

\* `try: func(*(func_args or []), **(func_kwargs or {}))`: the test function
\* returns or raises.
RunFunc(process_rank, raises) ==
    /\ ProcStep(process_rank, "func")
    /\ procs' = [procs EXCEPT ![process_rank] =
                    [@ EXCEPT !.pc = "finally", !.n_func = @ + 1,
                              !.func_raised = raises]]

\* `finally: dist.destroy_process_group()`, then the exception of func, if
\* any, leaves init_process.
DestroyProcessGroup(process_rank) ==
    /\ ProcStep(process_rank, "finally")
    /\ procs' = [procs EXCEPT ![process_rank] =
                    Exit([@ EXCEPT !.initialized = FALSE, !.n_destroy = @ + 1],
                         IF @.func_raised THEN Some("FuncError") ELSE None)]

----------------------------------------------------------------------------
(* The program. *)

\* The activation checkpointing configs the build pipeline is run with.
PipelineACAttempts == {None, Some(ACAttempt("selected_blocks", Some(1), None))}

Init ==
    /\ cuda_available \in BOOLEAN
    /\ ac_attempt \in PipelineACAttempts
    /\ cfg = DefaultConfig
    /\ pc = "start"
    /\ args = NoArgs
    /\ device = "cpu"
    /\ tp_mesh = None
    /\ dp_mesh = None
    /\ model = NoModel
    /\ calls = <<>>
    /\ warned = FALSE
    /\ err = None
    /\ desc = NoDesc
    /\ sizes = NoSizes
    /\ has_flash = FALSE
    /\ ll_args = None
    /\ ll_cfg = None
    /\ world_size = 0
    /\ device_count = 0
    /\ started = FALSE
    /\ procs = NoProcs

ConstructAC ==
    \E mode \in ACModes, bi \in BlockIntervals, mods \in ModuleLists :
        NewACConfig(mode, bi, mods)

ConstructConfig ==
    \E name \in TransformerTypes, compile \in BOOLEAN, dp \in DPConfigs,
       tp \in TPConfigs, f8 \in Float8Configs :
        NewConfig(name, compile, dp, tp, f8)

\* The first build of the config.
CallBuild ==
    /\ pc = "idle"
    /\ \E init_device \in Devices, device_arg \in {None} \cup {Some(d) : d \in TargetDevices},
          mesh \in Meshes, dm \in DPMeshArgs, tm \in TPMeshArgs :
           Build(init_device, device_arg, mesh, dm, tm)

\* A further build of the same config object, with the arguments of the first.
CallBuildAgain ==
    /\ pc \in {"returned", "raised"}
    /\ Build(args.init_device, Some(device), args.mesh,
             IF dp_mesh \in DPMeshArgs THEN dp_mesh ELSE None,
             IF tp_mesh \in TPMeshArgs THEN tp_mesh ELSE None)

Next ==
    \/ ConstructConfig
    \/ CallBuild
    \/ CallBuildAgain
    \/ AllocateShell
    \/ ConvertFloat8
    \/ ApplyTP
    \/ ApplyAC
    \/ ApplyCompile
    \/ ApplyDP
    \/ Materialize
    \/ InitWeights

Spec == Init /\ [][Next]_vars

\* The construction of the configs alone, every constructor argument tried.
InitAC ==
    /\ Init
    /\ ac_attempt = None

NextAC ==
    \/ ConstructAC
    \/ ConstructConfig

SpecAC == InitAC /\ [][NextAC]_vars

\* The sizing queries alone, on every descriptor.
InitSizing ==
    /\ cuda_available = FALSE
    /\ ac_attempt = None
    /\ cfg = DefaultConfig
    /\ pc = "start"
    /\ args = NoArgs
    /\ device = "cpu"
    /\ tp_mesh = None
    /\ dp_mesh = None
    /\ model = NoModel
    /\ calls = <<>>
    /\ warned = FALSE
    /\ err = None
    /\ desc \in Descriptors
    /\ sizes = NoSizes
    /\ has_flash = FALSE
    /\ ll_args = None
    /\ ll_cfg = None
    /\ world_size = 0
    /\ device_count = 0
    /\ started = FALSE
    /\ procs = NoProcs

QueryFlops == \E seq_len \in 1..MaxSeqLen : GetNumFlopsPerToken(seq_len)

NextSizing ==
    \/ GetNumParams
    \/ GetNumNonEmbeddingParams
    \/ QueryFlops

SpecSizing == InitSizing /\ [][NextSizing]_vars

\* The config factories alone, on every choice of their arguments.
InitFactory ==
    /\ cuda_available = FALSE
    /\ ac_attempt = None
    /\ cfg = DefaultConfig
    /\ pc = "start"
    /\ args = NoArgs
    /\ device = "cpu"
    /\ tp_mesh = None
    /\ dp_mesh = None
    /\ model = NoModel
    /\ calls = <<>>
    /\ warned = FALSE
    /\ err = None
    /\ desc = NoDesc
    /\ sizes = NoSizes
    /\ has_flash \in BOOLEAN
    /\ ll_args = None
    /\ ll_cfg = None
    /\ world_size = 0
    /\ device_count = 0
    /\ started = FALSE
    /\ procs = NoProcs

LlamaLike ==
    \E d_model \in 1..MaxDModel, multiple_of \in 1..MaxMultipleOf,
       multiplier \in HiddenSizeMultipliers, fused_ops \in OptionalBools,
       use_flash \in OptionalBools, compile \in BOOLEAN, n_kv_heads \in KVHeads,
       rope_type \in RoPETypes :
        CallLlamaLike(d_model, multiple_of, multiplier, fused_ops, use_flash, compile,
                      n_kv_heads, rope_type)

NgptLike ==
    \E d_model \in 1..MaxDModel, multiple_of \in 1..MaxMultipleOf,
       multiplier \in HiddenSizeMultipliers, use_flash \in OptionalBools,
       compile \in BOOLEAN, n_kv_heads \in KVHeads :
        CallNgptLike(d_model, multiple_of, multiplier, use_flash, compile, n_kv_heads)

NextFactory ==
    \/ LlamaLike
    \/ NgptLike

SpecFactory == InitFactory /\ [][NextFactory]_vars

\* The test harness alone, on every world size and every host.
InitHarness ==
    /\ device_count \in 0..MaxDeviceCount
    /\ cuda_available = (device_count > 0)
    /\ world_size \in 0..MaxWorldSize
    /\ started = FALSE
    /\ procs = NoProcs
    /\ ac_attempt = None
    /\ cfg = DefaultConfig
    /\ pc = "start"
    /\ args = NoArgs
    /\ device = "cpu"
    /\ tp_mesh = None
    /\ dp_mesh = None
    /\ model = NoModel
    /\ calls = <<>>
    /\ warned = FALSE
    /\ err = None
    /\ desc = NoDesc
    /\ sizes = NoSizes
    /\ has_flash = FALSE
    /\ ll_args = None
    /\ ll_cfg = None

NextHarness ==
    \/ StartProcesses
    \/ \E process_rank \in Ranks(MaxWorldSize) : AssertWorldSize(process_rank)
    \/ \E process_rank \in Ranks(MaxWorldSize), ok \in BOOLEAN :
            InitProcessGroup(process_rank, ok)
    \/ \E process_rank \in Ranks(MaxWorldSize) : SetDevice(process_rank)
    \/ \E process_rank \in Ranks(MaxWorldSize), raises \in BOOLEAN :
            RunFunc(process_rank, raises)
    \/ \E process_rank \in Ranks(MaxWorldSize) : DestroyProcessGroup(process_rank)

SpecHarness == InitHarness /\ [][NextHarness]_vars

----------------------------------------------------------------------------
(* Vocabulary of the properties. *)

\* A build call has been made (and is running, has returned or has raised).
InBuild == pc \notin {"start", "idle", "config_error"}

Called(op) == op \in Ops(calls)

WrapOps == {"apply_fsdp", "apply_ddp"}

\* The position of each step in the pipeline of build.
StepRank(op) ==
    CASE op = "__init__" -> 1
      [] op = "convert_to_float8_training" -> 2
      [] op = "apply_tp" -> 3
      [] op = "maybe_enable_async_tp" -> 4
      [] op = "apply_activation_checkpointing" -> 5
      [] op = "apply_compile" -> 6
      [] op \in WrapOps -> 7
      [] op = "to_empty" -> 8
      [] op = "init_weights" -> 9

----------------------------------------------------------------------------
\* C1: the steps a build performs occur in the fixed pipeline order (float8
\* conversion, apply_tp, async TP, activation checkpointing, compilation,
\* data-parallel wrapping, to_empty, init_weights), each at most once; async
\* TP is enabled right after apply_tp has run, on the same mesh.
C1_PipelineOrder ==
    /\ \A i, j \in 1..Len(calls) :
          i < j => StepRank(calls[i].op) < StepRank(calls[j].op)
    /\ \A j \in 1..Len(calls) :
          calls[j].op = "maybe_enable_async_tp" =>
              /\ j > 1
              /\ calls[j - 1].op = "apply_tp"
              /\ calls[j - 1].mesh = calls[j].mesh

C1_Witness ==
    /\ pc = "returned"
    /\ {"convert_to_float8_training", "apply_tp", "maybe_enable_async_tp",
        "apply_activation_checkpointing", "apply_compile", "apply_fsdp",
        "to_empty", "init_weights"} \subseteq Ops(calls)

\* C2: with tp_config present, mesh=None and tp_mesh=None, build raises and
\* returns no model; apply_tp and every later step are never reached.
C2_TPWithoutMeshRaises ==
    (InBuild /\ cfg.tp_config # None /\ args.mesh = None /\ tp_mesh = None) =>
        /\ pc \in {"shell", "float8", "tp", "raised"}
        /\ Ops(calls) \cap {"apply_tp", "maybe_enable_async_tp",
                            "apply_activation_checkpointing", "apply_compile",
                            "apply_fsdp", "apply_ddp", "to_empty", "init_weights"} = {}
        /\ model.n_init = 0
        /\ (pc = "raised" /\ cfg.name \in {"default", "normalized"})
              => err = Some("RuntimeError")

C2_Witness ==
    /\ cfg.tp_config # None /\ args.mesh = None /\ tp_mesh = None
    /\ pc = "raised"
    /\ err = Some("RuntimeError")

\* C3: when build raises for a missing tensor-parallel sub-mesh, no
\* transformation step has been applied to the model shell.
C3_NoMutationBeforeTPError ==
    (pc = "raised" /\ err = Some("RuntimeError")) => Ops(calls) \subseteq {"__init__"}

\* C4 as stated: apply_fsdp / apply_ddp is never invoked with dp_mesh=None.
C4_NoWrapWithoutMesh ==
    \A i \in 1..Len(calls) : calls[i].op \in WrapOps => calls[i].mesh # None

\* C4, amended: with DDP or FSDP requested, mesh=None and dp_mesh=None, step 6
\* raises nothing: it invokes the wrap with dp_mesh=None and build goes on to
\* materialization.
C4_WrapWithNoneMesh ==
    [][(/\ pc = "dp"
        /\ cfg.dp_config # None
        /\ Get(cfg.dp_config).name \in {"ddp", "fsdp"}
        /\ args.mesh = None
        /\ dp_mesh = None) =>
           /\ pc' = "materialize"
           /\ err' = None
           /\ Len(calls') = Len(calls) + 1
           /\ calls'[Len(calls')].op = (IF Get(cfg.dp_config).name = "ddp"
                                        THEN "apply_ddp" ELSE "apply_fsdp")
           /\ calls'[Len(calls')].mesh = None]_vars

C4_Witness ==
    /\ pc = "returned"
    /\ cfg.dp_config # None
    /\ Get(cfg.dp_config).name = "fsdp"
    /\ args.mesh = None
    /\ dp_mesh = None
    /\ Called("apply_fsdp")

\* C5 as stated: every step runs only if its own strategy is present, apply_tp
\* only if tp_config is present.
C5_StepsOnlyIfConfigured ==
    /\ Called("apply_tp") => cfg.tp_config # None
    /\ Called("apply_activation_checkpointing") => cfg.ac_config # None
    /\ Ops(calls) \cap WrapOps # {} => cfg.dp_config # None
    /\ Called("convert_to_float8_training") => cfg.float8_config # None
    /\ Called("apply_compile") => cfg.compile

\* C5, amended: apply_tp runs only if a tensor-parallel sub-mesh is at hand
\* (tp_mesh passed, or derived from mesh), with or without tp_config;
\* tp_config gates the async-TP enabling alone.  The other steps run only if
\* their own strategy is present.
C5_StepsOnlyIfTriggered ==
    /\ Called("apply_tp") => tp_mesh # None
    /\ \A i \in 1..Len(calls) : calls[i].op = "apply_tp" => calls[i].mesh = tp_mesh
    /\ Called("maybe_enable_async_tp") => cfg.tp_config # None
    /\ Called("apply_activation_checkpointing") => cfg.ac_config # None
    /\ Ops(calls) \cap WrapOps # {} => cfg.dp_config # None
    /\ Called("convert_to_float8_training") =>
          cfg.float8_config # None /\ Get(cfg.float8_config).enabled
    /\ Called("apply_compile") => cfg.compile

C5_Witness ==
    /\ pc = "returned"
    /\ cfg.tp_config = None
    /\ Called("apply_tp")

\* C6: constructing a TransformerActivationCheckpointingConfig raises
\* OLMoConfigurationError, in the constructor, exactly when (mode is
\* selected_blocks and block_interval is None) or (mode is selected_modules
\* and modules is None); every other combination constructs.
C6_ACConstruction ==
    ac_attempt # None =>
        LET a == Get(ac_attempt)
            invalid == \/ a.mode = "selected_blocks" /\ a.block_interval = None
                       \/ a.mode = "selected_modules" /\ a.modules = None
        IN  /\ invalid => a.raised = Some("OLMoConfigurationError")
            /\ invalid => (pc = "config_error" /\ err = Some("OLMoConfigurationError"))
            /\ ~invalid => a.raised = None
            /\ ~invalid => pc # "config_error"
            /\ cfg.ac_config # None => ~invalid

C6_Witness ==
    /\ ac_attempt # None
    /\ Get(ac_attempt).mode = "selected_blocks"
    /\ Get(ac_attempt).block_interval = None
    /\ Get(ac_attempt).modules # None
    /\ pc = "config_error"

\* C7: a build that returns has called init_weights exactly once, as its last
\* call, preceded by to_empty whenever the target device differs from
\* init_device; to_empty is not called when they are equal; the returned
\* model is on the target device and initialized.
C7_MaterializeThenInit ==
    pc = "returned" =>
        /\ Len(calls) >= 1
        /\ calls[Len(calls)].op = "init_weights"
        /\ Cardinality({i \in 1..Len(calls) : calls[i].op = "init_weights"}) = 1
        /\ model.n_init = 1
        /\ device # args.init_device =>
              (Len(calls) >= 2 /\ calls[Len(calls) - 1].op = "to_empty")
        /\ device = args.init_device => ~Called("to_empty")
        /\ model.device = device

C7_Witness ==
    /\ pc = "returned"
    /\ args.init_device = "meta"
    /\ device = "cuda"
    /\ Called("to_empty")

C9_DDPFlagMatchesCompiled ==
    \A i \in 1..Len(calls) :
        calls[i].op = "apply_ddp" =>
            (calls[i].flag = Some(TRUE) <=> Called("apply_compile"))

\* C10: an architecture name other than default/normalized raises
\* NotImplementedError before any model shell is constructed; a dp_config
\* variant other than DDP/FSDP/HSDP raises NotImplementedError with no wrap,
\* no materialization, no initialization and no model returned.
C10_UnknownVariantRaises ==
    /\ (InBuild /\ cfg.name \notin {"default", "normalized"}) =>
          /\ calls = <<>>
          /\ model = NoModel
          /\ pc \in {"shell", "raised"}
          /\ pc = "raised" => err = Some("NotImplementedError")
    /\ (/\ InBuild
        /\ cfg.dp_config # None
        /\ Get(cfg.dp_config).name \notin {"ddp", "fsdp", "hsdp"}) =>
          /\ Ops(calls) \cap (WrapOps \cup {"to_empty", "init_weights"}) = {}
          /\ model.n_init = 0
          /\ pc \notin {"materialize", "init", "returned"}
          /\ (pc = "raised" /\ Called("__init__") /\ err # Some("RuntimeError"))
                => err = Some("NotImplementedError")
          /\ (pc = "raised" /\ err = Some("RuntimeError"))
                => (cfg.tp_config # None /\ args.mesh = None /\ tp_mesh = None)

C10_Witness ==
    /\ pc = "raised"
    /\ err = Some("NotImplementedError")
    /\ cfg.name = "default"
    /\ cfg.dp_config # None
    /\ Get(cfg.dp_config).name = "unknown"
    /\ Called("apply_compile")

\* C11 as stated: with float8 enabled, an unset compile-interaction flag is
\* replaced by the global compile flag (True or False) for the conversion; a
\* flag set explicitly is used unchanged.
C11_Float8FlagInherits ==
    [][(/\ pc = "float8"
        /\ cfg.float8_config # None
        /\ Get(cfg.float8_config).enabled) =>
           /\ Len(calls') = Len(calls) + 1
           /\ calls'[Len(calls')].op = "convert_to_float8_training"
           /\ calls'[Len(calls')].flag =
                 (IF Get(cfg.float8_config).compile = None
                  THEN Some(cfg.compile) ELSE Get(cfg.float8_config).compile)]_vars

\* C11, amended: an unset flag becomes True when compile is True and stays
\* unset (None) when compile is False; a flag set explicitly is used unchanged.
C11_Float8FlagResolved ==
    [][(/\ pc = "float8"
        /\ cfg.float8_config # None
        /\ Get(cfg.float8_config).enabled) =>
           /\ Len(calls') = Len(calls) + 1
           /\ calls'[Len(calls')].op = "convert_to_float8_training"
           /\ calls'[Len(calls')].flag =
                 (IF Get(cfg.float8_config).compile = None
                  THEN (IF cfg.compile THEN Some(TRUE) ELSE None)
                  ELSE Get(cfg.float8_config).compile)
           /\ Get(cfg'.float8_config).compile = calls'[Len(calls')].flag]_vars

C11_Witness ==
    /\ pc = "returned"
    /\ ~cfg.compile
    /\ \E i \in 1..Len(calls) :
          calls[i].op = "convert_to_float8_training" /\ calls[i].flag = None

\* C12: float8 conversion is performed in build if and only if float8_config
\* is present and enabled, and every conversion leaves lm_head.w_out out.
C12_Float8Conversion ==
    /\ Called("convert_to_float8_training") =>
          (cfg.float8_config # None /\ Get(cfg.float8_config).enabled)
    /\ (/\ \/ pc \in {"tp", "ac", "compile", "dp", "materialize", "init", "returned"}
           \/ pc = "raised" /\ Called("__init__")
        /\ cfg.float8_config # None
        /\ Get(cfg.float8_config).enabled) => Called("convert_to_float8_training")
    /\ \A i \in 1..Len(calls) :
          calls[i].op = "convert_to_float8_training" => "lm_head.w_out" \in calls[i].ignore

C12_Witness ==
    /\ pc = "returned"
    /\ Called("convert_to_float8_training")
    /\ \E i \in 1..Len(calls) : calls[i].ignore = {"lm_head.w_out"}

\* C13: the sub-mesh a step uses is the one supplied (tp_mesh, dp_mesh) when
\* there is one; otherwise the view of the composed mesh when there is one;
\* otherwise, for HSDP only, the mesh built by dp_config.build_device_mesh for
\* the target device's type.
C13_MeshPrecedence ==
    [][/\ (pc = "tp" /\ pc' = "ac") =>
             /\ tp_mesh' = (IF tp_mesh # None THEN tp_mesh
                            ELSE IF args.mesh # None THEN get_tp_mesh(args.mesh)
                            ELSE None)
             /\ \A i \in 1..Len(calls') :
                   calls'[i].op = "apply_tp" => calls'[i].mesh = tp_mesh'
       /\ (pc = "dp" /\ pc' = "materialize" /\ cfg.dp_config # None) =>
             /\ Len(calls') = Len(calls) + 1
             /\ calls'[Len(calls')].mesh =
                   (IF dp_mesh # None THEN dp_mesh
                    ELSE IF args.mesh # None THEN get_dp_mesh(args.mesh)
                    ELSE IF Get(cfg.dp_config).name = "hsdp"
                    THEN build_device_mesh(device)
                    ELSE None)]_vars

C13_Witness ==
    /\ pc = "returned"
    /\ device = "cuda"
    /\ args.mesh = None
    /\ \E i \in 1..Len(calls) :
          calls[i].op = "apply_fsdp" /\ calls[i].mesh = Some("hsdp_mesh@cuda")

\* C14: num_non_embedding_params is num_params minus d_model * vocab_size,
\* and is never negative.
C14_NonEmbeddingParams ==
    sizes.num_non_embedding_params # None =>
        /\ Get(sizes.num_non_embedding_params) + desc.d_model * desc.vocab_size
              = num_params(desc)
        /\ Get(sizes.num_non_embedding_params) >= 0

C14_Witness ==
    /\ sizes.num_non_embedding_params # None
    /\ sizes.num_params # None
    /\ desc.vocab_size > 1
    /\ Get(sizes.num_non_embedding_params) < Get(sizes.num_params)

\* The per-block parameter count as C15 words it.
C15_BlockParams(c) ==
    c.attn_params
        + (IF c.block_name = "normalized" THEN 2 * c.d_model ELSE 0)
        + (IF c.ln_params # None THEN 2 * Get(c.ln_params) ELSE 0)
        + (IF c.ff_params # None THEN Get(c.ff_params)
           ELSE IF c.moe_params # None THEN Get(c.moe_params)
           ELSE 0)

\* C15: num_params is d_model * vocab_size + n_layers * B + H, and one more
\* layer adds exactly B.
C15_NumParams ==
    sizes.num_params # None =>
        /\ Get(sizes.num_params) =
              desc.d_model * desc.vocab_size
                  + desc.n_layers * C15_BlockParams(desc) + desc.head_params
        /\ num_params([desc EXCEPT !.n_layers = @ + 1]) - Get(sizes.num_params)
              = C15_BlockParams(desc)

C15_Witness ==
    /\ sizes.num_params # None
    /\ desc.block_name = "normalized"
    /\ desc.ln_params # None
    /\ desc.ff_params = None
    /\ desc.moe_params # None
    /\ desc.n_layers > 1

\* C16 as stated: num_flops_per_token is 6 * num_non_embedding_params plus
\* the attention term 12 * n_layers * d_model * seq_len, for every d_model
\* and n_heads.
C16_FlopsExactQuotient ==
    sizes.num_flops_per_token # None =>
        Get(sizes.num_flops_per_token) =
            6 * (num_params(desc) - desc.d_model * desc.vocab_size)
                + 12 * desc.n_layers * desc.d_model * Get(sizes.seq_len)

\* C16, amended: the quotient is the floor division d_model // n_heads, so
\* the attention term is 12 * n_layers * n_heads * (d_model // n_heads) *
\* seq_len, which is 12 * n_layers * d_model * seq_len exactly when n_heads
\* divides d_model (and is smaller otherwise).
C16_FlopsFloorQuotient ==
    sizes.num_flops_per_token # None =>
        LET base == 6 * (num_params(desc) - desc.d_model * desc.vocab_size)
            t == Get(sizes.seq_len)
            exact == base + 12 * desc.n_layers * desc.d_model * t
            got == Get(sizes.num_flops_per_token)
        IN  /\ got = base + 12 * desc.n_layers * desc.n_heads
                              * (desc.d_model \div desc.n_heads) * t
            /\ desc.d_model % desc.n_heads = 0 => got = exact
            /\ desc.d_model % desc.n_heads # 0 => got < exact

C16_Witness ==
    /\ sizes.num_flops_per_token # None
    /\ desc.d_model % desc.n_heads # 0
    /\ desc.n_heads < desc.d_model

\* C17: build and the sizing queries leave every field of the config as it
\* was when the config was constructed.
C17_ConfigUnchanged == [][pc # "start" => cfg' = cfg]_vars

\* C18: in llama_like and ngpt_like without hidden_size_multiplier, the
\* feed-forward hidden size is the smallest multiple of
\* hidden_size_multiple_of that is at least floor(8 * d_model / 3).
C18_HiddenSizeMultiple ==
    (ll_cfg # None /\ Get(ll_args).hidden_size_multiplier = None) =>
        LET hs == Get(ll_cfg).hidden_size
            m == Get(ll_args).hidden_size_multiple_of
            floor83 == (8 * Get(ll_args).d_model) \div 3
        IN  /\ hs % m = 0
            /\ hs >= floor83
            /\ hs - floor83 < m

C18_Witness ==
    /\ ll_cfg # None
    /\ Get(ll_args).factory = "ngpt_like"
    /\ Get(ll_args).hidden_size_multiplier = None
    /\ Get(ll_args).hidden_size_multiple_of > 2
    /\ Get(ll_cfg).hidden_size > (8 * Get(ll_args).d_model) \div 3

\* C19: in llama_like, fused_ops (and use_flash) left out resolves to True
\* if and only if flash-attn is installed and compile is False; a value
\* supplied for it is used unchanged.
C19_FlagDefaults ==
    (ll_cfg # None /\ Get(ll_args).factory = "llama_like") =>
        LET a == Get(ll_args)
            c == Get(ll_cfg)
        IN  /\ a.fused_ops = None => (c.fused_ops <=> (has_flash /\ ~a.compile))
            /\ a.fused_ops # None => c.fused_ops = Get(a.fused_ops)
            /\ a.use_flash = None => (c.use_flash <=> (has_flash /\ ~a.compile))
            /\ a.use_flash # None => c.use_flash = Get(a.use_flash)

C19_Witness ==
    /\ ll_cfg # None
    /\ Get(ll_args).factory = "llama_like"
    /\ Get(ll_args).fused_ops = None
    /\ Get(ll_args).use_flash = Some(FALSE)
    /\ has_flash
    /\ ~Get(ll_args).compile
    /\ Get(ll_cfg).fused_ops
    /\ ~Get(ll_cfg).use_flash

\* C20: a config from llama_like has attention 'fused' only if fused ops
\* resolved to True, n_kv_heads is None and no rope_type was supplied, and
\* then its rope is 'fused' too; otherwise its attention is 'default'.  Its
\* layer norm is 'fused_rms' if and only if fused ops resolved to True.
C20_FusedVariants ==
    (ll_cfg # None /\ Get(ll_args).factory = "llama_like") =>
        LET a == Get(ll_args)
            c == Get(ll_cfg)
            fusable == c.fused_ops /\ a.n_kv_heads = None /\ a.rope_type = None
        IN  /\ c.attention = "fused" => (fusable /\ c.rope = "fused")
            /\ ~fusable => c.attention = "default"
            /\ c.layer_norm = Some("fused_rms") <=> c.fused_ops

C20_Witness ==
    /\ ll_cfg # None
    /\ Get(ll_args).factory = "llama_like"
    /\ Get(ll_cfg).fused_ops
    /\ Get(ll_args).n_kv_heads # None
    /\ Get(ll_args).rope_type = None
    /\ Get(ll_cfg).attention = "default"
    /\ Get(ll_cfg).layer_norm = Some("fused_rms")

\* The processes that have left init_process.
Exited == {r \in DOMAIN procs : procs[r].pc = "exited"}

\* C21: every process that initialized the process group has destroyed it
\* exactly once when init_process exits; the started processes have the
\* distinct ranks 0..world_size-1; the test function never runs before the
\* group is initialized; init_process rejects world_size <= 1.
C21_GroupDestroyedOnExit ==
    /\ started => DOMAIN procs = Ranks(world_size)
    /\ \A r \in DOMAIN procs :
        /\ procs[r].n_func > 0 => procs[r].n_init = 1
        /\ world_size <= 1 =>
              /\ procs[r].n_init = 0
              /\ procs[r].pc = "exited" => procs[r].err = Some("AssertionError")
    /\ \A r \in Exited :
        /\ procs[r].n_init = 1 => procs[r].n_destroy = 1
        /\ procs[r].func_raised => procs[r].err = Some("FuncError")

\* What of C21 holds on every host: ranks, ordering, the world-size check,
\* and the teardown of every process that reached the test function.
C21_TeardownAfterFunc ==
    /\ started => DOMAIN procs = Ranks(world_size)
    /\ \A r \in DOMAIN procs :
        /\ procs[r].n_func > 0 => procs[r].n_init = 1
        /\ world_size <= 1 =>
              /\ procs[r].n_init = 0
              /\ procs[r].pc = "exited" => procs[r].err = Some("AssertionError")
    /\ \A r \in Exited :
        /\ procs[r].n_func = 1 => (procs[r].n_destroy = 1 /\ ~procs[r].initialized)
        /\ procs[r].n_func = 0 => procs[r].n_destroy = 0
        /\ procs[r].func_raised => procs[r].err = Some("FuncError")

\* A process left init_process with its process group still initialized.
C21_LeakReached ==
    \E r \in Exited :
        /\ procs[r].initialized
        /\ procs[r].n_destroy = 0
        /\ procs[r].err = Some("RuntimeError")

====
